---- MODULE Spec2Model ----
(***************************************************************************)
(* Model of the minesweeper board engine (minesweeper/src/board.rs) and of *)
(* the way its collaborators (minesweeper/src/main.rs,                     *)
(* minesweeper_gui/src/app.rs) call it.                                    *)
(*                                                                         *)
(* A Position is a pair <<x, y>>.  Option<T> is a sequence of length 0     *)
(* (None) or 1 (Some(v)).  A HashMap is a function whose DOMAIN is the set *)
(* of keys.  A Vec is a sequence, a HashSet / BTreeSet is a set.           *)
(***************************************************************************)
EXTENDS Integers, Sequences, FiniteSets, TLC

\* ------------------------------------------------------------------ bounds
MaxRows == 2
MaxCols == 4
MaxCells == 6
MaxMines == 2
MaxExtraDraws == 1

\* ------------------------------------------------------------------ state
VARIABLES
    rows,            \* Board.rows
    cols,            \* Board.cols
    nr_mines,        \* Board.nr_mines
    mines,           \* Board.mines : Option<HashSet<Position>>
    open_fields,     \* Board.open_fields
    flagged_fields,  \* Board.flagged_fields
    counts,          \* Board.counts : HashMap<Position, u8>
    state,           \* Board.state
    op,              \* the last call made on the board
    result           \* what the last call returned

vars == <<rows, cols, nr_mines, mines, open_fields, flagged_fields, counts,
          state, op, result>>

\* ------------------------------------------------------------------ types
None == <<>>

Some(v) == <<v>>

unwrap(o) == o[1]

EmptyMap == [p \in {} |-> 0]

Ok(s) == <<"Ok", s>>

Err(e) == <<"Err", e>>

Unit == <<"Ok", "()">>

Panic == <<"panic", "unwrap">>

DIRS == << <<1, 1>>, <<1, 0>>, <<1, -1>>, <<0, -1>>,
           <<-1, -1>>, <<-1, 0>>, <<-1, 1>>, <<0, 1>> >>

\* The board as one value, the way the methods see it through `self`.
Self == [rows |-> rows, cols |-> cols, nr_mines |-> nr_mines, mines |-> mines,
         open_fields |-> open_fields, flagged_fields |-> flagged_fields,
         counts |-> counts, state |-> state]

\* The positions a caller passes: main.rs parses any pair of numbers, so the
\* grid of the largest board and the line beyond its edges.
Inputs == (0..MaxCols) \X (0..MaxRows)

\* The positions of the grid.
Cells(self) == (0..(self.cols - 1)) \X (0..(self.rows - 1))

\* ------------------------------------------------------------------ helpers
\* reset_board without flagged_fields.clear() of line 83
reset_board_keeps_flags(self) ==
    [self EXCEPT !.open_fields = {},
                 !.counts = EmptyMap, !.state = "Init", !.mines = None]

\* Board::reset_board
reset_board(self) ==
    [self EXCEPT !.flagged_fields = {}, !.open_fields = {},
                 !.counts = EmptyMap, !.state = "Init", !.mines = None]

\* iter_neighbors without the test `*ny < r` of line 256
iter_neighbors_no_row_limit(self, pos) ==
    LET moved == [i \in 1..Len(DIRS) |->
                    <<pos[1] + DIRS[i][1], pos[2] + DIRS[i][2]>>]
        keep(q) == /\ q[1] >= 0 /\ q[1] < self.cols
                   /\ q[2] >= 0
                   /\ q # pos
    IN  SelectSeq(moved, keep)

\* Board::iter_neighbors, in the order of DIRS
iter_neighbors(self, pos) ==
    LET moved == [i \in 1..Len(DIRS) |->
                    <<pos[1] + DIRS[i][1], pos[2] + DIRS[i][2]>>]
        keep(q) == /\ q[1] >= 0 /\ q[1] < self.cols
                   /\ q[2] >= 0 /\ q[2] < self.rows
                   /\ q # pos
    IN  SelectSeq(moved, keep)

Range(s) == {s[i] : i \in 1..Len(s)}

\* the entry update without `and_modify(|c| *c += 1)`
entry_increment_insert_only(c, n) ==
    IF n \in DOMAIN c THEN c ELSE c @@ (n :> 1)

\* counts.entry(n).and_modify(|c| *c += 1).or_insert(1)
entry_increment(c, n) ==
    IF n \in DOMAIN c THEN [c EXCEPT ![n] = @ + 1] ELSE c @@ (n :> 1)

RECURSIVE count_neighbors(_, _, _)
\* the inner loop of set_counts over the neighbours of one mine
count_neighbors(c, neighs, i) ==
    IF i > Len(neighs) THEN c
    ELSE count_neighbors(entry_increment(c, neighs[i]), neighs, i + 1)

RECURSIVE count_mines(_, _, _)
\* the outer loop of set_counts over the mines still to visit
count_mines(self, c, todo) ==
    IF todo = {} THEN c
    ELSE LET m == CHOOSE m \in todo : TRUE
         IN  count_mines(self, count_neighbors(c, iter_neighbors(self, m), 1),
                         todo \ {m})

\* Board::set_counts
set_counts(self) ==
    [self EXCEPT !.counts = count_mines(self, EmptyMap, unwrap(self.mines))]

\* check_win_condition without the coverage test of line 223
check_win_condition_no_coverage(self) ==
    IF self.state = "OnGoing"
    THEN IF Cardinality(self.flagged_fields) = self.nr_mines
         THEN IF self.flagged_fields = unwrap(self.mines)
              THEN "Won" ELSE "OnGoing"
         ELSE "OnGoing"
    ELSE self.state

\* Board::check_win_condition
check_win_condition(self) ==
    IF self.state = "OnGoing"
    THEN IF /\ Cardinality(self.flagged_fields) = self.nr_mines
            /\ Cardinality(self.open_fields) + Cardinality(self.flagged_fields)
                 = self.cols * self.rows
         THEN IF self.flagged_fields = unwrap(self.mines)
              THEN "Won" ELSE "OnGoing"
         ELSE "OnGoing"
    ELSE self.state

\* Ord on Position: by x, then by y
PosLess(p, q) == p[1] < q[1] \/ (p[1] = q[1] /\ p[2] < q[2])

\* BTreeSet::pop_first
first(next) == CHOOSE n \in next : \A q \in next : q = n \/ PosLess(n, q)

\* the loop body where the branch of line 161 also empties the frontier
cascade_step_boundary_clears(self, n, rest, seen, to_open) ==
    IF n \in Range(seen)
    THEN [next |-> rest, seen |-> seen, to_open |-> to_open]
    ELSE
      LET seen2 == Append(seen, n) IN
        IF n \in unwrap(self.mines)
        THEN [next |-> rest, seen |-> seen2, to_open |-> to_open]
        ELSE IF n \notin self.open_fields
        THEN IF n \in DOMAIN self.counts
             THEN [next |-> {}, seen |-> seen2, to_open |-> Append(to_open, n)]
             ELSE [next |-> rest \cup {i \in Range(iter_neighbors(self, n)) :
                                         i \notin Range(seen2)
                                         /\ i \notin self.open_fields},
                   seen |-> seen2, to_open |-> Append(to_open, n)]
        ELSE [next |-> rest, seen |-> seen2, to_open |-> to_open]

\* one turn of the frontier loop (lines 152-171) after n was removed from the
\* frontier, rest being what the frontier still holds
cascade_step(self, n, rest, seen, to_open) ==
    IF n \in Range(seen)
    THEN [next |-> rest, seen |-> seen, to_open |-> to_open]
    ELSE
      LET seen2 == Append(seen, n) IN
        IF n \in unwrap(self.mines)
        THEN [next |-> rest, seen |-> seen2, to_open |-> to_open]
        ELSE IF n \notin self.open_fields
        THEN IF n \in DOMAIN self.counts
             THEN [next |-> rest, seen |-> seen2, to_open |-> Append(to_open, n)]
             ELSE [next |-> rest \cup {i \in Range(iter_neighbors(self, n)) :
                                         i \notin Range(seen2)
                                         /\ i \notin self.open_fields},
                   seen |-> seen2, to_open |-> Append(to_open, n)]
        ELSE [next |-> rest, seen |-> seen2, to_open |-> to_open]

RECURSIVE cascade_skips_flagged(_, _, _, _, _)
\* the frontier loop passing over flagged positions as it passes over mines
cascade_skips_flagged(self, next, seen, to_open, pops) ==
    IF next = {} THEN [to_open |-> to_open, seen |-> seen, pops |-> pops]
    ELSE
      LET n == first(next)
          rest == next \ {n}
      IN
        IF n \in Range(seen)
        THEN cascade_skips_flagged(self, rest, seen, to_open, pops + 1)
        ELSE
          LET seen2 == Append(seen, n) IN
            IF n \in unwrap(self.mines) \/ n \in self.flagged_fields
            THEN cascade_skips_flagged(self, rest, seen2, to_open, pops + 1)
            ELSE IF n \notin self.open_fields
            THEN IF n \in DOMAIN self.counts
                 THEN cascade_skips_flagged(self, rest, seen2,
                                            Append(to_open, n), pops + 1)
                 ELSE cascade_skips_flagged(self,
                        rest \cup {i \in Range(iter_neighbors(self, n)) :
                                     i \notin Range(seen2)
                                     /\ i \notin self.open_fields},
                        seen2, Append(to_open, n), pops + 1)
            ELSE cascade_skips_flagged(self, rest, seen2, to_open, pops + 1)

RECURSIVE cascade_expands_counted(_, _, _, _, _)
\* the frontier loop with the test of line 159 inverted
cascade_expands_counted(self, next, seen, to_open, pops) ==
    IF next = {} THEN [to_open |-> to_open, seen |-> seen, pops |-> pops]
    ELSE
      LET n == first(next)
          rest == next \ {n}
      IN
        IF n \in Range(seen)
        THEN cascade_expands_counted(self, rest, seen, to_open, pops + 1)
        ELSE
          LET seen2 == Append(seen, n) IN
            IF n \in unwrap(self.mines)
            THEN cascade_expands_counted(self, rest, seen2, to_open, pops + 1)
            ELSE IF n \notin self.open_fields
            THEN IF n \notin DOMAIN self.counts
                 THEN cascade_expands_counted(self, rest, seen2,
                                              Append(to_open, n), pops + 1)
                 ELSE cascade_expands_counted(self,
                        rest \cup {i \in Range(iter_neighbors(self, n)) :
                                     i \notin Range(seen2)
                                     /\ i \notin self.open_fields},
                        seen2, Append(to_open, n), pops + 1)
            ELSE cascade_expands_counted(self, rest, seen2, to_open, pops + 1)

RECURSIVE cascade_reinserts_seen(_, _, _, _, _)
\* the frontier loop without the test `!seen.contains(&i)` of line 166
cascade_reinserts_seen(self, next, seen, to_open, pops) ==
    IF next = {} THEN [to_open |-> to_open, seen |-> seen, pops |-> pops]
    ELSE
      LET n == first(next)
          rest == next \ {n}
      IN
        IF n \in Range(seen)
        THEN cascade_reinserts_seen(self, rest, seen, to_open, pops + 1)
        ELSE
          LET seen2 == Append(seen, n) IN
            IF n \in unwrap(self.mines)
            THEN cascade_reinserts_seen(self, rest, seen2, to_open, pops + 1)
            ELSE IF n \notin self.open_fields
            THEN IF n \in DOMAIN self.counts
                 THEN cascade_reinserts_seen(self, rest, seen2,
                                             Append(to_open, n), pops + 1)
                 ELSE cascade_reinserts_seen(self,
                        rest \cup {i \in Range(iter_neighbors(self, n)) :
                                     i \notin self.open_fields},
                        seen2, Append(to_open, n), pops + 1)
            ELSE cascade_reinserts_seen(self, rest, seen2, to_open, pops + 1)

RECURSIVE cascade(_, _, _, _, _)
\* the frontier loop of Board::open; self.open_fields already holds pos
cascade(self, next, seen, to_open, pops) ==
    IF next = {} THEN [to_open |-> to_open, seen |-> seen, pops |-> pops]
    ELSE
      LET n == first(next)
          rest == next \ {n}
      IN
        IF n \in Range(seen) THEN cascade(self, rest, seen, to_open, pops + 1)
        ELSE
          LET seen2 == Append(seen, n) IN
            IF n \in unwrap(self.mines)
            THEN cascade(self, rest, seen2, to_open, pops + 1)
            ELSE IF n \notin self.open_fields
            THEN IF n \in DOMAIN self.counts
                 THEN cascade(self, rest, seen2, Append(to_open, n), pops + 1)
                 ELSE cascade(self,
                        rest \cup {i \in Range(iter_neighbors(self, n)) :
                                     i \notin Range(seen2)
                                     /\ i \notin self.open_fields},
                        seen2, Append(to_open, n), pops + 1)
            ELSE cascade(self, rest, seen2, to_open, pops + 1)

\* the frontier loop as open runs it for a cell pos that has no count: pos is
\* inserted into open_fields (line 139), the frontier starts with its
\* unopened neighbours (lines 144-147)
open_cascade(self, pos) ==
    LET s1 == [self EXCEPT !.open_fields = @ \cup {pos}]
    IN  cascade(s1, {p \in Range(iter_neighbors(s1, pos)) :
                       p \notin s1.open_fields}, <<>>, <<>>, 0)

\* open_insert that takes the flag off every position the cascade opens
open_insert_unflags(self, pos) ==
    LET s1 == [self EXCEPT !.open_fields = @ \cup {pos}]
        s2 == IF pos \notin DOMAIN s1.counts
              THEN LET next == {p \in Range(iter_neighbors(s1, pos)) :
                                  p \notin s1.open_fields}
                       c == cascade(s1, next, <<>>, <<>>, 0)
                   IN  [s1 EXCEPT !.open_fields = @ \cup Range(c.to_open),
                                  !.flagged_fields = @ \ Range(c.to_open)]
              ELSE s1
    IN  IF check_win_condition(s2) = "Won"
        THEN [self |-> [s2 EXCEPT !.state = "Won"], ret |-> Ok("Won")]
        ELSE [self |-> s2, ret |-> Ok("OnGoing")]

\* open_insert that removes the entry of pos from counts while looking it up
open_insert_drops_count(self, pos) ==
    LET s1 == [self EXCEPT !.open_fields = @ \cup {pos},
                           !.counts = [p \in DOMAIN @ \ {pos} |-> @[p]]]
        s2 == IF pos \notin DOMAIN self.counts
              THEN LET next == {p \in Range(iter_neighbors(s1, pos)) :
                                  p \notin s1.open_fields}
                       c == cascade(s1, next, <<>>, <<>>, 0)
                   IN  [s1 EXCEPT !.open_fields = @ \cup Range(c.to_open)]
              ELSE s1
    IN  IF check_win_condition(s2) = "Won"
        THEN [self |-> [s2 EXCEPT !.state = "Won"], ret |-> Ok("Won")]
        ELSE [self |-> s2, ret |-> Ok("OnGoing")]

\* the body of `else if self.open_fields.insert(pos)` when pos was absent
open_insert(self, pos) ==
    LET s1 == [self EXCEPT !.open_fields = @ \cup {pos}]
        s2 == IF pos \notin DOMAIN s1.counts
              THEN LET next == {p \in Range(iter_neighbors(s1, pos)) :
                                  p \notin s1.open_fields}
                       c == cascade(s1, next, <<>>, <<>>, 0)
                   IN  [s1 EXCEPT !.open_fields = @ \cup Range(c.to_open)]
              ELSE s1
    IN  IF check_win_condition(s2) = "Won"
        THEN [self |-> [s2 EXCEPT !.state = "Won"], ret |-> Ok("Won")]
        ELSE [self |-> s2, ret |-> Ok("OnGoing")]

\* open that takes the flag off a flagged position before it refuses it
open_refusal_unflags(self, pos) ==
    CASE self.state = "Lost" -> [self |-> self, ret |-> Err("AlreadyLost")]
      [] self.state = "Init" -> [self |-> self, ret |-> Err("MinesNotInit")]
      [] self.state = "Won" -> [self |-> self, ret |-> Err("AlreadyWon")]
      [] self.state = "OnGoing" ->
           IF pos[1] >= self.cols \/ pos[2] >= self.rows
           THEN [self |-> self, ret |-> Err("OutOfBounds")]
           ELSE IF pos \in unwrap(self.mines)
           THEN [self |-> [self EXCEPT !.state = "Lost"], ret |-> Ok("Lost")]
           ELSE IF pos \in self.flagged_fields
           THEN [self |-> [self EXCEPT !.flagged_fields = @ \ {pos}],
                 ret |-> Err("AlreadyFlagged")]
           ELSE IF pos \notin self.open_fields
           THEN open_insert(self, pos)
           ELSE [self |-> self, ret |-> Err("AlreadyOpen")]

\* open without the mine test of lines 134-136
open_no_mine_test(self, pos) ==
    CASE self.state = "Lost" -> [self |-> self, ret |-> Err("AlreadyLost")]
      [] self.state = "Init" -> [self |-> self, ret |-> Err("MinesNotInit")]
      [] self.state = "Won" -> [self |-> self, ret |-> Err("AlreadyWon")]
      [] self.state = "OnGoing" ->
           IF pos[1] >= self.cols \/ pos[2] >= self.rows
           THEN [self |-> self, ret |-> Err("OutOfBounds")]
           ELSE IF pos \in self.flagged_fields
           THEN [self |-> self, ret |-> Err("AlreadyFlagged")]
           ELSE IF pos \notin self.open_fields
           THEN open_insert(self, pos)
           ELSE [self |-> self, ret |-> Err("AlreadyOpen")]

\* open with the flag test of line 137 placed before the mine test of line 134
open_flag_first(self, pos) ==
    CASE self.state = "Lost" -> [self |-> self, ret |-> Err("AlreadyLost")]
      [] self.state = "Init" -> [self |-> self, ret |-> Err("MinesNotInit")]
      [] self.state = "Won" -> [self |-> self, ret |-> Err("AlreadyWon")]
      [] self.state = "OnGoing" ->
           IF pos[1] >= self.cols \/ pos[2] >= self.rows
           THEN [self |-> self, ret |-> Err("OutOfBounds")]
           ELSE IF pos \in self.flagged_fields
           THEN [self |-> self, ret |-> Err("AlreadyFlagged")]
           ELSE IF pos \in unwrap(self.mines)
           THEN [self |-> [self EXCEPT !.state = "Lost"], ret |-> Ok("Lost")]
           ELSE IF pos \notin self.open_fields
           THEN open_insert(self, pos)
           ELSE [self |-> self, ret |-> Err("AlreadyOpen")]

\* open that inserts the mine stepped on into open_fields
open_lost_inserts(self, pos) ==
    CASE self.state = "Lost" -> [self |-> self, ret |-> Err("AlreadyLost")]
      [] self.state = "Init" -> [self |-> self, ret |-> Err("MinesNotInit")]
      [] self.state = "Won" -> [self |-> self, ret |-> Err("AlreadyWon")]
      [] self.state = "OnGoing" ->
           IF pos[1] >= self.cols \/ pos[2] >= self.rows
           THEN [self |-> self, ret |-> Err("OutOfBounds")]
           ELSE IF pos \in unwrap(self.mines)
           THEN [self |-> [self EXCEPT !.state = "Lost",
                                       !.open_fields = @ \cup {pos}],
                 ret |-> Ok("Lost")]
           ELSE IF pos \in self.flagged_fields
           THEN [self |-> self, ret |-> Err("AlreadyFlagged")]
           ELSE IF pos \notin self.open_fields
           THEN open_insert(self, pos)
           ELSE [self |-> self, ret |-> Err("AlreadyOpen")]

\* Board::open
open(self, pos) ==
    CASE self.state = "Lost" -> [self |-> self, ret |-> Err("AlreadyLost")]
      [] self.state = "Init" -> [self |-> self, ret |-> Err("MinesNotInit")]
      [] self.state = "Won" -> [self |-> self, ret |-> Err("AlreadyWon")]
      [] self.state = "OnGoing" ->
           IF pos[1] >= self.cols \/ pos[2] >= self.rows
           THEN [self |-> self, ret |-> Err("OutOfBounds")]
           ELSE IF pos \in unwrap(self.mines)
           THEN [self |-> [self EXCEPT !.state = "Lost"], ret |-> Ok("Lost")]
           ELSE IF pos \in self.flagged_fields
           THEN [self |-> self, ret |-> Err("AlreadyFlagged")]
           ELSE IF pos \notin self.open_fields
           THEN open_insert(self, pos)
           ELSE [self |-> self, ret |-> Err("AlreadyOpen")]

\* flag without the AlreadyOpen test of line 199
flag_no_open_check(self, pos) ==
    CASE self.state = "Lost" -> [self |-> self, ret |-> Err("AlreadyLost")]
      [] self.state = "Init" -> [self |-> self, ret |-> Err("MinesNotInit")]
      [] self.state = "Won" -> [self |-> self, ret |-> Err("AlreadyWon")]
      [] self.state = "OnGoing" ->
           IF pos[1] >= self.cols \/ pos[2] >= self.rows
           THEN [self |-> self, ret |-> Err("OutOfBounds")]
           ELSE IF pos \in self.flagged_fields
           THEN [self |-> [self EXCEPT !.flagged_fields = @ \ {pos}],
                 ret |-> Ok("OnGoing")]
           ELSE LET s1 == [self EXCEPT !.flagged_fields = @ \cup {pos}]
                IN  IF check_win_condition(s1) = "Won"
                    THEN [self |-> [s1 EXCEPT !.state = "Won"],
                          ret |-> Ok("Won")]
                    ELSE [self |-> s1, ret |-> Ok("OnGoing")]

\* flag without the AlreadyWon arm of line 195: a won board is handled as OnGoing
flag_ignores_won(self, pos) ==
    CASE self.state = "Lost" -> [self |-> self, ret |-> Err("AlreadyLost")]
      [] self.state = "Init" -> [self |-> self, ret |-> Err("MinesNotInit")]
      [] self.state \in {"Won", "OnGoing"} ->
           IF pos[1] >= self.cols \/ pos[2] >= self.rows
           THEN [self |-> self, ret |-> Err("OutOfBounds")]
           ELSE IF pos \in self.open_fields
           THEN [self |-> self, ret |-> Err("AlreadyOpen")]
           ELSE IF pos \in self.flagged_fields
           THEN [self |-> [self EXCEPT !.flagged_fields = @ \ {pos}],
                 ret |-> Ok("OnGoing")]
           ELSE LET s1 == [self EXCEPT !.flagged_fields = @ \cup {pos}]
                IN  IF check_win_condition(s1) = "Won"
                    THEN [self |-> [s1 EXCEPT !.state = "Won"],
                          ret |-> Ok("Won")]
                    ELSE [self |-> s1, ret |-> Ok("OnGoing")]

\* flag that clears flagged_fields where line 204 removes pos
flag_unflag_clears(self, pos) ==
    CASE self.state = "Lost" -> [self |-> self, ret |-> Err("AlreadyLost")]
      [] self.state = "Init" -> [self |-> self, ret |-> Err("MinesNotInit")]
      [] self.state = "Won" -> [self |-> self, ret |-> Err("AlreadyWon")]
      [] self.state = "OnGoing" ->
           IF pos[1] >= self.cols \/ pos[2] >= self.rows
           THEN [self |-> self, ret |-> Err("OutOfBounds")]
           ELSE IF pos \in self.open_fields
           THEN [self |-> self, ret |-> Err("AlreadyOpen")]
           ELSE IF pos \in self.flagged_fields
           THEN [self |-> [self EXCEPT !.flagged_fields = {}],
                 ret |-> Ok("OnGoing")]
           ELSE LET s1 == [self EXCEPT !.flagged_fields = @ \cup {pos}]
                IN  IF check_win_condition(s1) = "Won"
                    THEN [self |-> [s1 EXCEPT !.state = "Won"],
                          ret |-> Ok("Won")]
                    ELSE [self |-> s1, ret |-> Ok("OnGoing")]

\* Board::flag
flag(self, pos) ==
    CASE self.state = "Lost" -> [self |-> self, ret |-> Err("AlreadyLost")]
      [] self.state = "Init" -> [self |-> self, ret |-> Err("MinesNotInit")]
      [] self.state = "Won" -> [self |-> self, ret |-> Err("AlreadyWon")]
      [] self.state = "OnGoing" ->
           IF pos[1] >= self.cols \/ pos[2] >= self.rows
           THEN [self |-> self, ret |-> Err("OutOfBounds")]
           ELSE IF pos \in self.open_fields
           THEN [self |-> self, ret |-> Err("AlreadyOpen")]
           ELSE IF pos \in self.flagged_fields
           THEN [self |-> [self EXCEPT !.flagged_fields = @ \ {pos}],
                 ret |-> Ok("OnGoing")]
           ELSE LET s1 == [self EXCEPT !.flagged_fields = @ \cup {pos}]
                IN  IF check_win_condition(s1) = "Won"
                    THEN [self |-> [s1 EXCEPT !.state = "Won"],
                          ret |-> Ok("Won")]
                    ELSE [self |-> s1, ret |-> Ok("OnGoing")]

RECURSIVE draw_mines_keeps_start(_, _, _, _)
\* the loop of init_mines without the test of line 115
draw_mines_keeps_start(self, start_position, m, draws) ==
    IF ~(Cardinality(m) < self.nr_mines)
    THEN [mines |-> m, done |-> TRUE, unused |-> Len(draws)]
    ELSE IF draws = <<>>
    THEN [mines |-> m, done |-> FALSE, unused |-> 0]
    ELSE draw_mines_keeps_start(self, start_position, m \cup {Head(draws)},
                                Tail(draws))

RECURSIVE draw_mines(_, _, _, _)
\* the rejection-sampling loop of init_mines run on the draws the generator
\* produces; done is FALSE when the draws end before the loop does
draw_mines(self, start_position, m, draws) ==
    IF ~(Cardinality(m) < self.nr_mines)
    THEN [mines |-> m, done |-> TRUE, unused |-> Len(draws)]
    ELSE IF draws = <<>>
    THEN [mines |-> m, done |-> FALSE, unused |-> 0]
    ELSE LET xy == Head(draws)
         IN  draw_mines(self, start_position,
                        IF xy # start_position THEN m \cup {xy} ELSE m,
                        Tail(draws))

\* Board::init_mines after the loop has drawn the mine set
init_mines(self, start_position, m) ==
    LET s1 == reset_board(self)
        s2 == [s1 EXCEPT !.mines = Some(m)]
        s3 == [s2 EXCEPT !.state = "OnGoing"]
        s4 == set_counts(s3)
        o == open(s4, start_position)
    IN  IF o.ret[1] = "Ok"
        THEN [self |-> o.self, ret |-> Unit]
        ELSE [self |-> o.self, ret |-> Panic]

\* The sequences of draws rng.random_range can produce for one call: each draw
\* is a cell of the grid; the loop runs for at most nr_mines + MaxExtraDraws
\* draws.
DrawSeqs(self) ==
    UNION {[1..k -> Cells(self)] : k \in 0..(self.nr_mines + MaxExtraDraws)}

\* The mine sets the loop of init_mines can end with.
drawn(self, start_position) ==
    {draw_mines(self, start_position, {}, d).mines :
        d \in {d \in DrawSeqs(self) :
                 LET r == draw_mines(self, start_position, {}, d)
                 IN  r.done /\ r.unused = 0}}

\* ------------------------------------------------------------ projection
\* enum Square
Square_Mine == <<"Mine">>

Square_Opened(c) == <<"Opened", c>>

Square_Flag == <<"Flag">>

Square_NotYetOpened == <<"NotYetOpened">>

\* counts.get(&pos).unwrap_or(&0)
count_or_zero(self, pos) ==
    IF pos \in DOMAIN self.counts THEN self.counts[pos] ELSE 0

\* one loop `for (x, y) in set.iter() { map[*y][*x] = square }` of
\* get_board_state, square giving the square of each position of set; every
\* position the board holds lies on the grid
paint(map, set, square) ==
    [y \in DOMAIN map |->
       [x \in DOMAIN map[y] |->
          IF <<x, y>> \in set THEN square[<<x, y>>] ELSE map[y][x]]]

\* get_board_state painting the mines whenever the board is initialized
get_board_state_always_mines(self) ==
    LET map == [y \in 0..(self.rows - 1) |->
                  [x \in 0..(self.cols - 1) |-> Square_NotYetOpened]]
        opened == [p \in self.open_fields |->
                     Square_Opened(count_or_zero(self, p))]
        mine == [p \in unwrap(self.mines) |-> Square_Mine]
        flagged == [p \in self.flagged_fields |-> Square_Flag]
    IN  IF self.state = "Init" THEN map
        ELSE paint(paint(paint(map, self.open_fields, opened),
                         unwrap(self.mines), mine),
                   self.flagged_fields, flagged)

\* get_board_state painting the flags before the mines
get_board_state_mines_last(self) ==
    LET map == [y \in 0..(self.rows - 1) |->
                  [x \in 0..(self.cols - 1) |-> Square_NotYetOpened]]
        opened == [p \in self.open_fields |->
                     Square_Opened(count_or_zero(self, p))]
        mine == [p \in unwrap(self.mines) |-> Square_Mine]
        flagged == [p \in self.flagged_fields |-> Square_Flag]
        m1 == paint(paint(map, self.open_fields, opened),
                    self.flagged_fields, flagged)
    IN  IF self.state = "Init" THEN map
        ELSE IF self.state = "Lost" THEN paint(m1, unwrap(self.mines), mine)
        ELSE m1

\* Board::get_board_state; map[y][x] with y in 0..rows-1 and x in 0..cols-1
get_board_state(self) ==
    LET map == [y \in 0..(self.rows - 1) |->
                  [x \in 0..(self.cols - 1) |-> Square_NotYetOpened]]
        opened == [p \in self.open_fields |->
                     Square_Opened(count_or_zero(self, p))]
        mine == [p \in unwrap(self.mines) |-> Square_Mine]
        flagged == [p \in self.flagged_fields |-> Square_Flag]
        m1 == paint(map, self.open_fields, opened)
        m2 == IF self.state = "Lost" THEN paint(m1, unwrap(self.mines), mine)
              ELSE m1
    IN  IF self.state = "Init" THEN map
        ELSE paint(m2, self.flagged_fields, flagged)

\* ------------------------------------------------------------------ actions
Store(b) ==
    /\ rows' = b.rows
    /\ cols' = b.cols
    /\ nr_mines' = b.nr_mines
    /\ mines' = b.mines
    /\ open_fields' = b.open_fields
    /\ flagged_fields' = b.flagged_fields
    /\ counts' = b.counts
    /\ state' = b.state

\* a panic ends the process; nothing is called on the board afterwards
Running == result # Panic

\* Board::new on the arguments a collaborator passes
Init ==
    \E r \in 1..MaxRows, c \in 1..MaxCols, n \in 0..MaxMines :
        /\ r * c <= MaxCells
        /\ r * c > n
        /\ rows = r /\ cols = c /\ nr_mines = n
        /\ mines = None
        /\ open_fields = {} /\ flagged_fields = {}
        /\ counts = EmptyMap
        /\ state = "Init"
        /\ op = "new" /\ result = Unit

\* main.rs and app.rs call init_mines for the first valid coordinate, while
\* the board is not yet initialized()
InitMines ==
    /\ Running
    /\ state = "Init"
    /\ \E start_position \in Inputs :
         \E m \in drawn(Self, start_position) :
            LET r == init_mines(Self, start_position, m)
            IN  /\ Store(r.self)
                /\ op' = "init_mines" /\ result' = r.ret

Open ==
    /\ Running
    /\ \E pos \in Inputs :
         LET r == open(Self, pos)
         IN  /\ Store(r.self)
             /\ op' = "open" /\ result' = r.ret

Flag ==
    /\ Running
    /\ \E pos \in Inputs :
         LET r == flag(Self, pos)
         IN  /\ Store(r.self)
             /\ op' = "flag" /\ result' = r.ret

Next == InitMines \/ Open \/ Flag

Spec == Init /\ [][Next]_vars

\* ------------------------------------------------- init_mines called again
\* init_mines is public and resets the board itself (line 119), so a caller may
\* call it on a board in any state.  The boards of this specification have at
\* most MaxReinitCells cells.
MaxReinitCells == 3

ReinitBoards ==
    {b \in (1..MaxRows) \X (1..MaxCols) \X (0..MaxMines) :
        b[1] * b[2] <= MaxReinitCells /\ b[1] * b[2] > b[3]}

\* drawn, computed once for every board and start position: the loop of
\* init_mines reads only rows, cols and nr_mines of the board
drawn_memo ==
    {<<b, s, drawn([rows |-> b[1], cols |-> b[2], nr_mines |-> b[3]], s)>> :
        b \in ReinitBoards, s \in Inputs}

drawn_again(self, start_position) ==
    (CHOOSE t \in drawn_memo :
        /\ t[1] = <<self.rows, self.cols, self.nr_mines>>
        /\ t[2] = start_position)[3]

InitReinit == Init /\ rows * cols <= MaxReinitCells

InitMinesAgain ==
    /\ Running
    /\ \E start_position \in Inputs :
         \E m \in drawn_again(Self, start_position) :
            LET r == init_mines(Self, start_position, m)
            IN  /\ Store(r.self)
                /\ op' = "init_mines" /\ result' = r.ret

NextReinit == InitMinesAgain \/ Open \/ Flag

SpecReinit == InitReinit /\ [][NextReinit]_vars

\* ------------------------------------------------- iter_neighbors on grids
\* iter_neighbors reads only rows and cols; it is called here for every cell
\* of every grid of up to MaxGridRows x MaxGridCols cells.
MaxGridRows == 9

MaxGridCols == 9

InitGrid ==
    \E r \in 1..MaxGridRows, c \in 1..MaxGridCols :
        /\ rows = r /\ cols = c /\ nr_mines = 0
        /\ mines = None
        /\ open_fields = {} /\ flagged_fields = {}
        /\ counts = EmptyMap
        /\ state = "Init"
        /\ op = "new" /\ result = Unit

\* board.iter_neighbors(pos).collect(); result holds pos and what was yielded
IterNeighbors ==
    \E pos \in Cells(Self) :
        /\ op' = "iter_neighbors"
        /\ result' = <<pos, iter_neighbors(Self, pos)>>
        /\ UNCHANGED <<rows, cols, nr_mines, mines, open_fields,
                       flagged_fields, counts, state>>

NextGrid == IterNeighbors

SpecGrid == InitGrid /\ [][NextGrid]_vars

\* ------------------------------------------------------------------ claims
\* The win condition as the specification states it.
WinCond(self) ==
    /\ self.flagged_fields = unwrap(self.mines)
    /\ Cardinality(self.open_fields) + Cardinality(self.flagged_fields)
         = self.rows * self.cols

InBounds(pos) == pos[1] < cols /\ pos[2] < rows

\* C1: in every reachable state no position is both flagged and opened.
C1_FlaggedOpenedDisjoint == flagged_fields \cap open_fields = {}

\* C2: once the mines are set, state is Won exactly when flagged == mines and
\* |opened| + |flagged| == rows*cols; every open or flag call ends in Won and
\* returns Ok(Won) exactly when the board it leaves satisfies that condition.
C2_WinCorrectness ==
    mines # None =>
      /\ (state = "Won") <=> WinCond(Self)
      /\ \A pos \in Inputs :
           /\ LET o == open(Self, pos)
              IN  /\ (o.self.state = "Won") <=> WinCond(o.self)
                  /\ (o.ret = Ok("Won")) <=>
                       (state = "OnGoing" /\ WinCond(o.self))
           /\ LET f == flag(Self, pos)
              IN  /\ (f.self.state = "Won") <=> WinCond(f.self)
                  /\ (f.ret = Ok("Won")) <=>
                       (state = "OnGoing" /\ WinCond(f.self))

\* a flag call has just won the game by flagging the last mine
C2_Witness ==
    /\ state = "Won" /\ op = "flag" /\ result = Ok("Won")
    /\ nr_mines > 0 /\ WinCond(Self)

\* C3: open decides its outcome by the first matching case of: Lost, Init, Won,
\* out of bounds, mine (state becomes Lost), flagged, already opened, and
\* otherwise opens the cell.
C3_OpenPrecedence ==
    \A pos \in Inputs :
      LET o == open(Self, pos)
      IN  CASE state = "Lost" -> o.ret = Err("AlreadyLost")
            [] state = "Init" -> o.ret = Err("MinesNotInit")
            [] state = "Won" -> o.ret = Err("AlreadyWon")
            [] state = "OnGoing" ->
                 IF pos[1] >= cols \/ pos[2] >= rows
                 THEN o.ret = Err("OutOfBounds")
                 ELSE IF pos \in unwrap(mines)
                 THEN o.ret = Ok("Lost") /\ o.self.state = "Lost"
                 ELSE IF pos \in flagged_fields
                 THEN o.ret = Err("AlreadyFlagged")
                 ELSE IF pos \in open_fields
                 THEN o.ret = Err("AlreadyOpen")
                 ELSE /\ o.ret \in {Ok("OnGoing"), Ok("Won")}
                      /\ pos \in o.self.open_fields

\* a mine that carries a flag can be stepped on, and an open has just been
\* refused for a flag
C3_Witness ==
    /\ state = "OnGoing" /\ op = "open" /\ result = Err("AlreadyFlagged")
    /\ unwrap(mines) \cap flagged_fields # {}

\* C4: while OnGoing, open on a mine returns Ok(Lost), sets state to Lost and
\* changes nothing else, flagged mine or not.
C4_LosingOpen ==
    state = "OnGoing" =>
      \A pos \in unwrap(mines) :
        open(Self, pos) = [self |-> [Self EXCEPT !.state = "Lost"],
                           ret |-> Ok("Lost")]

\* the game was just lost on a board whose mines all carry a flag
C4_Witness ==
    /\ state = "Lost" /\ op = "open" /\ result = Ok("Lost")
    /\ unwrap(mines) \subseteq flagged_fields
    /\ open_fields # {}

\* C5: while OnGoing, open on a position that is already opened returns
\* AlreadyOpen and changes nothing.
C5_ReopenIsAlreadyOpen ==
    state = "OnGoing" =>
      \A pos \in open_fields :
        open(Self, pos) = [self |-> Self, ret |-> Err("AlreadyOpen")]

\* C6: flag decides its outcome by the first matching case of: Lost, Init, Won,
\* out of bounds, already opened (nothing is flagged); a cell that is neither
\* opened nor flagged gets the flag and the call returns Won or OnGoing as the
\* win condition says.
C6_FlagPrecedence ==
    \A pos \in Inputs :
      LET f == flag(Self, pos)
      IN  CASE state = "Lost" -> f.ret = Err("AlreadyLost")
            [] state = "Init" -> f.ret = Err("MinesNotInit")
            [] state = "Won" -> f.ret = Err("AlreadyWon")
            [] state = "OnGoing" ->
                 IF pos[1] >= cols \/ pos[2] >= rows
                 THEN f.ret = Err("OutOfBounds")
                 ELSE IF pos \in open_fields
                 THEN /\ f.ret = Err("AlreadyOpen")
                      /\ f.self.flagged_fields = flagged_fields
                 ELSE IF pos \notin flagged_fields
                 THEN /\ f.self.flagged_fields = flagged_fields \cup {pos}
                      /\ f.self.open_fields = open_fields
                      /\ IF WinCond(f.self)
                         THEN f.ret = Ok("Won") /\ f.self.state = "Won"
                         ELSE f.ret = Ok("OnGoing") /\ f.self.state = "OnGoing"
                 ELSE TRUE

\* a flag call has just been refused on an opened cell
C6_Witness ==
    /\ state = "OnGoing" /\ op = "flag" /\ result = Err("AlreadyOpen")
    /\ flagged_fields # {}

\* C7: while OnGoing, flag on a flagged position removes the flag and returns
\* Ok(OnGoing), leaving everything else as it was.
C7_FlagCanBeRemoved ==
    state = "OnGoing" =>
      \A pos \in flagged_fields :
        flag(Self, pos) =
          [self |-> [Self EXCEPT !.flagged_fields = @ \ {pos}],
           ret |-> Ok("OnGoing")]

\* C8: init_mines leaves exactly nr_mines distinct mines, all on the grid and
\* none at start_position, whatever the generator draws.
C8_MineSet ==
    /\ state = "Init" =>
         \A start_position \in Inputs :
           \A m \in drawn(Self, start_position) :
             /\ init_mines(Self, start_position, m).self.mines = Some(m)
             /\ Cardinality(m) = nr_mines
             /\ m \subseteq Cells(Self)
             /\ start_position \notin m
    /\ mines # None =>
         /\ Cardinality(unwrap(mines)) = nr_mines
         /\ unwrap(mines) \subseteq Cells(Self)

\* init_mines has just placed two mines or more, one of them next to the cell
\* it opened
C8_Witness ==
    /\ op = "init_mines" /\ result = Unit
    /\ Cardinality(unwrap(mines)) >= 2
    /\ \E p \in open_fields :
         Range(iter_neighbors(Self, p)) \cap unwrap(mines) # {}

\* C9: no open or flag call changes the mine set or the adjacency counts.
C9_MinesAndCountsFrozen ==
    [][op' \in {"open", "flag"} => (mines' = mines /\ counts' = counts)]_vars

\* the game has been won by an open on a board with mines and counts
C9_Witness ==
    /\ state = "Won" /\ op = "open" /\ result = Ok("Won")
    /\ unwrap(mines) # {} /\ DOMAIN counts # {}

\* C10: the open that init_mines performs on start_position returns Ok, so
\* init_mines never aborts.
C10_InitOpenCannotFail == op = "init_mines" => result = Unit

\* A board on which nothing of an earlier game is left: mines m, their counts,
\* nothing opened, nothing flagged.
FreshGame(self, m) ==
    set_counts([rows |-> self.rows, cols |-> self.cols,
                nr_mines |-> self.nr_mines, mines |-> Some(m),
                open_fields |-> {}, flagged_fields |-> {},
                counts |-> EmptyMap, state |-> "OnGoing"])

\* what init_mines leaves of the game before: no flag, no count, and no opened
\* cell but those the first open reveals on the new mines
StartsAfresh(b, start_position, m) ==
    /\ b.mines = Some(m)
    /\ b.flagged_fields = {}
    /\ start_position \in b.open_fields
    /\ b.open_fields = open(FreshGame(b, m), start_position).self.open_fields
    /\ b.counts = FreshGame(b, m).counts

\* C11 as stated: init_mines on a cell of the grid, called in any state of the
\* board, leaves state OnGoing and nothing of the game before, on every legal
\* board, nr_mines = 0 included.
C11_ReinitLeavesOnGoing ==
    Running =>
      \A start_position \in Cells(Self) :
        \A m \in drawn_again(Self, start_position) :
          LET r == init_mines(Self, start_position, m)
          IN  /\ r.ret = Unit
              /\ r.self.state = "OnGoing"
              /\ StartsAfresh(r.self, start_position, m)

\* C11 as amended: the same, with state Won instead of OnGoing on a board
\* with nr_mines = 0, where the first open reveals every cell and wins.
C11_ReinitStartsAfresh ==
    Running =>
      \A start_position \in Cells(Self) :
        \A m \in drawn_again(Self, start_position) :
          LET r == init_mines(Self, start_position, m)
          IN  /\ r.ret = Unit
              /\ r.self.state = IF nr_mines = 0 THEN "Won" ELSE "OnGoing"
              /\ StartsAfresh(r.self, start_position, m)

\* a lost game with opened cells and a flag on the board, on which init_mines
\* is called again
C11_Witness ==
    /\ state = "Lost" /\ op = "open"
    /\ flagged_fields # {} /\ open_fields # {}
    /\ ENABLED InitMinesAgain

\* C13: on a Lost (Won) board every open and every flag call, for any position
\* on or off the grid, returns AlreadyLost (AlreadyWon) and changes nothing.
C13_TerminalAbsorbing ==
    /\ state = "Lost" =>
         \A pos \in Inputs :
           /\ open(Self, pos) = [self |-> Self, ret |-> Err("AlreadyLost")]
           /\ flag(Self, pos) = [self |-> Self, ret |-> Err("AlreadyLost")]
    /\ state = "Won" =>
         \A pos \in Inputs :
           /\ open(Self, pos) = [self |-> Self, ret |-> Err("AlreadyWon")]
           /\ flag(Self, pos) = [self |-> Self, ret |-> Err("AlreadyWon")]

\* a flag call has just been refused on a won board that has mines
C13_Witness ==
    /\ state = "Won" /\ op = "flag" /\ result = Err("AlreadyWon")
    /\ flagged_fields # {}

\* C14: the projection is a rows x cols grid; in Init every cell is
\* NotYetOpened; otherwise the cell at [y][x] is Flag if flagged, else Mine if
\* the game is Lost and the cell is a mine, else Opened(count) if opened, else
\* NotYetOpened.
C14_Projection ==
    LET g == get_board_state(Self)
    IN  /\ DOMAIN g = 0..(rows - 1)
        /\ \A y \in 0..(rows - 1) :
             /\ DOMAIN g[y] = 0..(cols - 1)
             /\ \A x \in 0..(cols - 1) :
                  g[y][x] =
                    IF state = "Init" THEN Square_NotYetOpened
                    ELSE IF <<x, y>> \in flagged_fields THEN Square_Flag
                    ELSE IF state = "Lost" /\ <<x, y>> \in unwrap(mines)
                    THEN Square_Mine
                    ELSE IF <<x, y>> \in open_fields
                    THEN Square_Opened(IF <<x, y>> \in DOMAIN counts
                                       THEN counts[<<x, y>>] ELSE 0)
                    ELSE Square_NotYetOpened

\* a lost game with one mine under a flag and another one not: the projection
\* shows the first as Flag, the second as Mine
C14_Witness ==
    /\ state = "Lost"
    /\ \E p \in unwrap(mines) \cap flagged_fields :
         get_board_state(Self)[p[2]][p[1]] = Square_Flag
    /\ \E p \in unwrap(mines) \ flagged_fields :
         get_board_state(Self)[p[2]][p[1]] = Square_Mine
    /\ \E p \in open_fields : get_board_state(Self)[p[2]][p[1]][1] = "Opened"

\* the squares of a grid
Squares(g) == {g[y][x] : y \in DOMAIN g, x \in 0..(cols - 1)}

\* the counts of self on its opened cells only
counts_on_opened(self) ==
    [p \in DOMAIN self.counts \cap self.open_fields |-> self.counts[p]]

\* the mine sets that differ from m in one cell of the grid
OtherMines(self, m) == {(m \ {p}) \cup ({p} \ m) : p \in Cells(self)}

\* C15: unless the game is Lost the projection holds no Mine square, and it is
\* the same for a board with another mine set and the same opened cells, flags
\* and counts on opened cells.
C15_MinesHiddenUntilLost ==
    state # "Lost" =>
      /\ Square_Mine \notin Squares(get_board_state(Self))
      /\ mines # None =>
           \A m \in OtherMines(Self, unwrap(mines)) :
             get_board_state([Self EXCEPT !.mines = Some(m),
                                          !.counts = counts_on_opened(Self)])
               = get_board_state(Self)

\* a game that goes on with an unflagged mine next to an opened cell, and a
\* won game: neither projection shows a mine
C15_Witness ==
    /\ state \in {"OnGoing", "Won"}
    /\ op \in {"open", "flag"}
    /\ unwrap(mines) \ flagged_fields # {}
    /\ \E p \in open_fields : p \in DOMAIN counts
    /\ Square_Mine \notin Squares(get_board_state(Self))

\* C16: while OnGoing, flagging an unopened, unflagged cell of the grid twice,
\* when the first call does not win, returns Ok(OnGoing) both times and leaves
\* the board as it was.
C16_FlagRoundTrip ==
    state = "OnGoing" =>
      \A pos \in Cells(Self) \ (open_fields \cup flagged_fields) :
        ~WinCond([Self EXCEPT !.flagged_fields = @ \cup {pos}]) =>
          LET f1 == flag(Self, pos)
              f2 == flag(f1.self, pos)
          IN  /\ f1.ret = Ok("OnGoing")
              /\ f2.ret = Ok("OnGoing")
              /\ f2.self = Self

\* a flag call has just removed the only flag of a game that goes on
C16_Witness ==
    /\ state = "OnGoing" /\ op = "flag" /\ result = Ok("OnGoing")
    /\ flagged_fields = {} /\ open_fields # {}
    /\ Cells(Self) \ open_fields # unwrap(mines)

\* the cells of the grid that touch pos, pos excluded
Touching(self, pos) ==
    {q \in Cells(self) :
       /\ q # pos
       /\ q[1] - pos[1] \in {-1, 0, 1}
       /\ q[2] - pos[2] \in {-1, 0, 1}}

\* C17: iter_neighbors yields exactly the cells of the grid that touch pos, each
\* once: 3 for a corner, 5 for another edge cell and 8 for an interior cell of
\* a grid of 3x3 or more.
C17_Neighbors ==
    op = "iter_neighbors" =>
      LET pos == result[1]
          ns == result[2]
          onx == pos[1] \in {0, cols - 1}
          ony == pos[2] \in {0, rows - 1}
      IN  /\ Range(ns) = Touching(Self, pos)
          /\ Len(ns) = Cardinality(Range(ns))
          /\ (rows >= 3 /\ cols >= 3) =>
               Len(ns) = IF onx /\ ony THEN 3
                         ELSE IF onx \/ ony THEN 5 ELSE 8

\* the interior cell (4,4) of the 9x9 grid has yielded 8 neighbours
C17_Witness ==
    /\ rows = 9 /\ cols = 9 /\ op = "iter_neighbors"
    /\ result[1] = <<4, 4>> /\ Len(result[2]) = 8

RECURSIVE Revealed(_, _)
\* the smallest set that holds R and all cells touching its cells without count
Revealed(self, R) ==
    LET R2 == R \cup UNION {Touching(self, p) :
                              p \in {q \in R : q \notin DOMAIN self.counts}}
    IN  IF R2 = R THEN R ELSE Revealed(self, R2)

\* the cells open accepts: on the grid, no mine, no flag, not opened
Openable(self) ==
    Cells(self) \ (unwrap(self.mines) \cup self.flagged_fields
                     \cup self.open_fields)

\* C18: a successful open of pos adds to opened exactly the smallest set that
\* holds pos and the cells touching its cells without count; only pos when pos
\* has a count.
C18_CascadeResult ==
    state = "OnGoing" =>
      \A pos \in Openable(Self) :
        LET o == open(Self, pos)
        IN  /\ o.self.open_fields = open_fields \cup Revealed(Self, {pos})
            /\ pos \in DOMAIN counts => o.self.open_fields = open_fields \cup {pos}

\* an open has just revealed cells without count up to cells with a count,
\* one of them under a flag
C18_Witness ==
    /\ state = "OnGoing" /\ op = "open" /\ result = Ok("OnGoing")
    /\ \E p \in open_fields : p \notin DOMAIN counts
    /\ \E p \in open_fields \cap flagged_fields : p \in DOMAIN counts

\* C19: no mine is ever opened.
C19_NoMineOpened == mines # None => open_fields \cap unwrap(mines) = {}

\* the game was lost on a mine next to an opened cell
C19_Witness ==
    /\ state = "Lost" /\ op = "open" /\ result = Ok("Lost")
    /\ \E p \in open_fields : p \in DOMAIN counts
    /\ open_fields \cap unwrap(mines) = {}

\* every position is removed from the frontier once, rows*cols times at most
EndsInTime(self, c) ==
    /\ c.pops <= self.rows * self.cols
    /\ c.pops = Len(c.seen)
    /\ Len(c.seen) = Cardinality(Range(c.seen))

\* C20: the frontier loop of every open that starts a cascade, the one of
\* init_mines included, ends after at most rows*cols removals, none of them of
\* a position removed before.
C20_CascadeEnds ==
    /\ state = "OnGoing" =>
         \A pos \in Openable(Self) \ DOMAIN counts :
           EndsInTime(Self, open_cascade(Self, pos))
    /\ state = "Init" =>
         \A start_position \in Cells(Self) :
           \A m \in drawn(Self, start_position) :
             LET b == FreshGame(Self, m)
             IN  start_position \notin DOMAIN b.counts =>
                   EndsInTime(b, open_cascade(b, start_position))

\* an open has just won the game by a cascade over cells without count
C20_Witness ==
    /\ state = "Won" /\ op = "open" /\ result = Ok("Won")
    /\ unwrap(mines) # {}
    /\ Cardinality({p \in open_fields : p \notin DOMAIN counts}) >= 2

\* the mines among the cells touching p
MinesAround(self, p) == Touching(self, p) \cap unwrap(self.mines)

\* C21: once the mines are placed, a cell of the grid (mine or not) has an
\* entry in counts exactly when a mine touches it, the entry is the number of
\* mines touching it, between 1 and 8, and counts has no entry off the grid.
C21_Counts ==
    mines # None =>
      /\ DOMAIN counts \subseteq Cells(Self)
      /\ \A p \in Cells(Self) :
           /\ p \in DOMAIN counts <=> MinesAround(Self, p) # {}
           /\ p \in DOMAIN counts =>
                /\ counts[p] = Cardinality(MinesAround(Self, p))
                /\ counts[p] \in 1..8

\* init_mines has just counted two mines around one cell, one around a mine,
\* and none around another cell
C21_Witness ==
    /\ op = "init_mines" /\ result = Unit
    /\ \E p \in DOMAIN counts : counts[p] = 2
    /\ \E p \in unwrap(mines) : p \in DOMAIN counts
    /\ \E p \in Cells(Self) : p \notin DOMAIN counts

RECURSIVE AnyOrder(_, _, _, _)
\* the sets the frontier loop can leave in to_open when each turn removes any
\* pending position
AnyOrder(self, next, seen, to_open) ==
    IF next = {} THEN {Range(to_open)}
    ELSE UNION {LET st == cascade_step(self, n, next \ {n}, seen, to_open)
                IN  AnyOrder(self, st.next, st.seen, st.to_open) : n \in next}

\* what open of a cell pos without count can leave and return when the
\* frontier loop removes pending positions in any order
OpenAnyOrder(self, pos) ==
    LET s1 == [self EXCEPT !.open_fields = @ \cup {pos}]
        next == {p \in Range(iter_neighbors(s1, pos)) : p \notin s1.open_fields}
        done(T) == LET s2 == [s1 EXCEPT !.open_fields = @ \cup T]
                   IN  IF check_win_condition(s2) = "Won"
                       THEN [self |-> [s2 EXCEPT !.state = "Won"],
                             ret |-> Ok("Won")]
                       ELSE [self |-> s2, ret |-> Ok("OnGoing")]
    IN  {done(T) : T \in AnyOrder(s1, next, <<>>, <<>>)}

\* C22: open and flag are functions of the board and the position, and for
\* every open that starts a cascade, the one of init_mines included, removing
\* the pending positions in any order leaves the board and returns the value
\* that the lowest-first order does.
C22_OrderIndependent ==
    /\ state = "OnGoing" =>
         \A pos \in Openable(Self) \ DOMAIN counts :
           OpenAnyOrder(Self, pos) = {open(Self, pos)}
    /\ state = "Init" =>
         \A start_position \in Cells(Self) :
           \A m \in drawn(Self, start_position) :
             LET b == FreshGame(Self, m)
             IN  start_position \notin DOMAIN b.counts =>
                   OpenAnyOrder(b, start_position) = {open(b, start_position)}

\* after an open, a cell without count can be opened whose cascade starts
\* with two pending positions or more
C22_Witness ==
    /\ state = "OnGoing" /\ op = "open" /\ result = Ok("OnGoing")
    /\ \E pos \in Openable(Self) \ DOMAIN counts :
         Cardinality(Touching(Self, pos) \ open_fields) >= 2

\* C23: an open or flag call that returns an error leaves state, opened,
\* flagged, counts and mines as they were.
C23_ErrorsChangeNothing ==
    \A pos \in Inputs :
      LET o == open(Self, pos)
          f == flag(Self, pos)
      IN  /\ o.ret[1] = "Err" => o.self = Self
          /\ f.ret[1] = "Err" => f.self = Self

\* open has just refused a flagged cell that is no mine
C23_Witness ==
    /\ state = "OnGoing" /\ op = "open" /\ result = Err("AlreadyFlagged")
    /\ unwrap(mines) \cap flagged_fields = {} /\ open_fields # {}

\* C24: a successful open leaves flagged as it was and removes nothing from
\* opened; a successful flag adds or removes exactly the given position in
\* flagged and leaves opened as it was.
C24_SuccessFrame ==
    \A pos \in Inputs :
      LET o == open(Self, pos)
          f == flag(Self, pos)
      IN  /\ o.ret[1] = "Ok" =>
               /\ o.self.flagged_fields = flagged_fields
               /\ open_fields \subseteq o.self.open_fields
          /\ f.ret[1] = "Ok" =>
               /\ f.self.open_fields = open_fields
               /\ f.self.flagged_fields =
                    IF pos \in flagged_fields THEN flagged_fields \ {pos}
                    ELSE flagged_fields \cup {pos}

\* an open has just succeeded on a board that keeps a flag on an unopened cell
C24_Witness ==
    /\ state = "OnGoing" /\ op = "open" /\ result = Ok("OnGoing")
    /\ flagged_fields \ open_fields # {}
    /\ Cardinality(open_fields) >= 2

\* C25: in every reachable state every opened cell without count has all the
\* cells touching it in opened.
C25_CascadeClosed ==
    \A p \in open_fields :
      p \notin DOMAIN counts => Touching(Self, p) \subseteq open_fields

\* an opened cell without count is surrounded by opened cells, one of them
\* with a count, on a board without flags
C25_Witness ==
    /\ state = "OnGoing" /\ op = "open" /\ flagged_fields = {}
    /\ \E p \in open_fields :
         /\ p \notin DOMAIN counts
         /\ Touching(Self, p) \cap DOMAIN counts # {}

\* C26: no reachable OnGoing state has a flagged cell that is no mine and
\* whose flag cannot be removed, so that Won stays within reach.
C26_NoStuckFlag ==
    state = "OnGoing" =>
      \A p \in flagged_fields :
        \/ p \in unwrap(mines)
        \/ p \notin flag(Self, p).self.flagged_fields

====
